---- MODULE Spec2Model ----
(***************************************************************************)
(* The Turing-machine backend (target/tm.c): the generator that lowers an  *)
(* IR module to a transition table, and the run of the emitted table on a  *)
(* one-head tape.                                                          *)
(***************************************************************************)
EXTENDS Integers, Sequences, FiniteSets, TLC

(***************************************************************************)
(* Alphabet (symbol_t) and word size.                                      *)
(***************************************************************************)
BLANK == 0
START == 1
END == 2
ZERO == 3
ONE == 4
REGISTER == 5
ADDRESS == 6
VALUE == 7
OUTPUT == 8
SRC == 9
DST == 10
num_symbols == 12
word_size == 8
num_regs == 6

BLANK_BEFORE_DST == 4
BLANK_AFTER_DST == 8

Symbols == 0 .. (num_symbols - 1)

\* (1<<i)&x ? ONE : ZERO  (bit i of x in two's complement)
bit_symbol(x, i) ==
  IF (x % (2 ^ (i + 1))) \div (2 ^ i) = 1 THEN ONE ELSE ZERO

intcmp(x, y) ==
  IF x > y THEN 1 ELSE IF x < y THEN -1 ELSE 0

(***************************************************************************)
(* The generator's context: the state counter (next_state), the reject     *)
(* state, the lines emitted so far (one tuple <<q, a, r, b, d>> per        *)
(* emit_line), whether error() was called (err), the state the code holds  *)
(* in its variable q, which is the value the last call returned (q), and   *)
(* the value of the last new_state() (fresh).  Every function takes its    *)
(* start state q from the context it is given and leaves its return value  *)
(* there, as the code's  q = f(q, ...)  does; the statements of a function *)
(* are nested calls, the first statement innermost.  error() ends the      *)
(* program: whatever is called with a context in which it was called does  *)
(* nothing.                                                                *)
(***************************************************************************)
new_state(G) ==
  [G EXCEPT !.next_state = @ + 1, !.fresh = G.next_state]

\* error(): the generator stops; what was emitted before stays emitted
error(G) ==
  [G EXCEPT !.err = TRUE]

\* the next call starts from state q, which is not the value the last call
\* returned
at(G, q) ==
  [G EXCEPT !.q = q]

\* the line printed by emit_line("%d %s %d %s %s", q, a, r, b, dname)
tm_transition(q, a, b, d, r) ==
  <<q, a, r, b, d>>

\* for (symbol_t s=0; s<num_symbols; s++) tm_transition(q, s, f[s]...);
\* return r: the twelve lines are appended in symbol order; f[s] is
\* <<b, d, r>> for read symbol s.  A direction other than -1, 0, +1 calls
\* error().
for_each_symbol(G, f, r) ==
  IF G.err THEN G
  ELSE IF \E s \in Symbols : f[s][2] \notin {-1, 0, 1}
    THEN error(G)
    ELSE [G EXCEPT !.lines = @ \o
            [i \in 1 .. num_symbols |->
               tm_transition(G.q, i - 1, f[i - 1][1], f[i - 1][2],
                             f[i - 1][3])],
                   !.q = r]

tm_write(G, b, d, r) ==
  for_each_symbol(G, [a \in Symbols |-> <<b, d, r>>], r)

tm_write_if(G, a, ba, da, ra, b, d, r) ==
  for_each_symbol(G, [s \in Symbols |-> IF s = a THEN <<ba, da, ra>>
                                                 ELSE <<b, d, r>>], r)

tm_write_if2(G, a1, b1, d1, r1, a2, b2, d2, r2, b, d, r) ==
  for_each_symbol(G, [s \in Symbols |-> IF s = a1 THEN <<b1, d1, r1>>
                                        ELSE IF s = a2 THEN <<b2, d2, r2>>
                                        ELSE <<b, d, r>>], r)

tm_move(G, d, r) ==
  for_each_symbol(G, [s \in Symbols |-> <<s, d, r>>], r)

tm_move_if(G, a, da, ra, d, r) ==
  for_each_symbol(G, [s \in Symbols |-> IF s = a THEN <<s, da, ra>>
                                                 ELSE <<s, d, r>>], r)

tm_move_if2(G, a, da, ra, b, db, rb, d, r) ==
  for_each_symbol(G, [s \in Symbols |-> IF s = a THEN <<s, da, ra>>
                                        ELSE IF s = b THEN <<s, db, rb>>
                                        ELSE <<s, d, r>>], r)

tm_noop(G, r) ==
  tm_move(G, 0, r)

\* the idiom  q = tm_write(q, b, d, new_state())
write_new(G, b, d) ==
  IF G.err THEN G
  ELSE LET N == new_state(G) IN tm_write(N, b, d, N.fresh)

\* the idiom  q = tm_move(q, d, new_state())
move_new(G, d) ==
  IF G.err THEN G
  ELSE LET N == new_state(G) IN tm_move(N, d, N.fresh)

\* the loop of tm_write_bits, for i = n-1 down to 1
RECURSIVE tm_write_bits_loop(_, _, _)
tm_write_bits_loop(G, x, i) ==
  IF G.err THEN G
  ELSE IF i > 0
    THEN tm_write_bits_loop(
           write_new(move_new(G, 1), bit_symbol(x, i), 1), x, i - 1)
    ELSE G

\* tm_write_bits writing bit 1 of x where bit 0 is due
tm_write_bits_last(G, x, n, r) ==
  IF G.err THEN G
  ELSE
    tm_write(move_new(tm_write_bits_loop(G, x, n - 1), 1),
             bit_symbol(x, 1), 1, r)

tm_write_bits(G, x, n, r) ==
  IF G.err THEN G
  ELSE
    tm_write(move_new(tm_write_bits_loop(G, x, n - 1), 1),
             bit_symbol(x, 0), 1, r)

tm_write_word(G, x, r) ==
  tm_write_bits(G, x, word_size, r)

tm_write_byte(G, x, r) ==
  tm_write_bits(G, x, 8, r)

\* the idiom  q = tm_write_word(q, x, new_state())
write_word_new(G, x) ==
  IF G.err THEN G
  ELSE LET N == new_state(G) IN tm_write_word(N, x, N.fresh)

\* the idiom  q = tm_write_byte(q, x, new_state())
write_byte_new(G, x) ==
  IF G.err THEN G
  ELSE LET N == new_state(G) IN tm_write_byte(N, x, N.fresh)

tm_find(G, d, a, r_yes, r_no) ==
  LET marker == IF d < 0 THEN START ELSE END
  IN  at(tm_move_if2(G, a, 0, r_yes, marker, 0, r_no, d, G.q), r_yes)

\* the idiom  q = tm_find(q, d, a, new_state(), r_no)
find_new(G, d, a, r_no) ==
  IF G.err THEN G
  ELSE LET N == new_state(G) IN tm_find(N, d, a, N.fresh, r_no)

tm_rewind(G, r) ==
  at(tm_move_if(G, START, 0, r, -1, G.q), r)

tm_ffwd(G, r) ==
  at(tm_move_if(G, END, 0, r, 1, G.q), r)

\* the idiom  q = tm_rewind(q, new_state())
rewind_new(G) ==
  IF G.err THEN G
  ELSE LET N == new_state(G) IN tm_rewind(N, N.fresh)

\* the idiom  q = tm_ffwd(q, new_state())
ffwd_new(G) ==
  IF G.err THEN G
  ELSE LET N == new_state(G) IN tm_ffwd(N, N.fresh)

\* the loop of tm_find_register giving up at the first index bit that
\* differs: the mismatch goes to q_reject, not back to qstart
RECURSIVE tm_find_register_loop_rejects(_, _, _, _)
tm_find_register_loop_rejects(G, qstart, reg, i) ==
  IF G.err THEN G
  ELSE IF i >= 0
    THEN LET N == new_state(move_new(G, 1))
             q_match == N.fresh
         IN  tm_find_register_loop_rejects(
               at(tm_move_if2(N, bit_symbol(reg, i), 1, q_match,
                              END, 0, G.q_reject, 1, G.q_reject), q_match),
               qstart, reg, i - 1)
    ELSE G

\* the loop of tm_find_register over the index bits, i = word_size-1 .. 0
RECURSIVE tm_find_register_loop(_, _, _, _)
tm_find_register_loop(G, qstart, reg, i) ==
  IF G.err THEN G
  ELSE IF i >= 0
    THEN LET N == new_state(move_new(G, 1))
             q_match == N.fresh
         IN  tm_find_register_loop(
               at(tm_move_if2(N, bit_symbol(reg, i), 1, q_match,
                              END, 0, G.q_reject, 1, qstart), q_match),
               qstart, reg, i - 1)
    ELSE G

\* tm_find_register matching the index 0 whatever reg is
tm_find_register_first(G, reg, r) ==
  IF G.err THEN G
  ELSE
    at(tm_move_if(
         move_new(
           tm_find_register_loop(
             move_new(find_new(G, 1, REGISTER, G.q_reject), 1),
             G.q, 0, word_size - 1),
           1),
         VALUE, 1, r, 0, G.q_reject),
       r)

\* qstart is the q the function is called with
tm_find_register(G, reg, r) ==
  IF G.err THEN G
  ELSE
    at(tm_move_if(
         move_new(
           tm_find_register_loop(
             move_new(find_new(G, 1, REGISTER, G.q_reject), 1),
             G.q, reg, word_size - 1),
           1),
         VALUE, 1, r, 0, G.q_reject),
       r)

\* the idiom  q = tm_find_register(q, reg, new_state())
find_register_new(G, reg) ==
  IF G.err THEN G
  ELSE LET N == new_state(G) IN tm_find_register(N, reg, N.fresh)

\* mode & flag, for the two flags of mode_t
has_flag(mode, flag) ==
  (mode \div flag) % 2 = 1

\* if (mode & BLANK_BEFORE_DST) q0 = tm_write(q0, BLANK, +1, new_state())
blank_before_dst(G, mode) ==
  IF G.err THEN G
  ELSE
    IF has_flag(mode, BLANK_BEFORE_DST) THEN write_new(G, BLANK, 1) ELSE G

\* if (mode & BLANK_AFTER_DST) q = tm_move(q, +1, new_state())
blank_after_dst(G, mode) ==
  IF G.err THEN G
  ELSE
    IF has_flag(mode, BLANK_AFTER_DST) THEN move_new(G, 1) ELSE G

\* one of the two symmetric branches of tm_copy_helper, from q0 or q1: mark
\* the scratch cell, find DST, write the bit there and go to q
copy_bit_branch(G, d, mode, bit, q) ==
  IF G.err THEN G
  ELSE
    tm_write(
      blank_before_dst(
        find_new(write_new(G, SRC, 1), d, DST, G.q_reject),
        mode),
      bit, 1, q)

\* tm_copy_helper from its branches on, the states it has named being given
copy_bits(G, q_nextbit, q0, q1, q_clean, q, d, mode, r) ==
  IF G.err THEN G
  ELSE
    tm_write(
      find_new(
        at(tm_find(
             write_new(
               blank_after_dst(
                 at(copy_bit_branch(
                      at(copy_bit_branch(at(G, q0), d, mode, ZERO, q), q1),
                      d, mode, ONE, q),
                    q),
                 mode),
               DST, 0),
             -d, SRC, q_nextbit, G.q_reject),
           q_clean),
        d, DST, G.q_reject),
      BLANK, 0, r)

tm_copy_helper(G, d, mode, r) ==
  LET A == write_new(G, SRC, 0)
      N0 == new_state(write_new(A, BLANK, 1))
      N1 == new_state(N0)
      N2 == new_state(N1)
      C == tm_move_if2(N2, ZERO, 1, N0.fresh, ONE, 1, N1.fresh, 0, N2.fresh)
      N3 == new_state(C)
  IN  copy_bits(N3, A.q, N0.fresh, N1.fresh, N2.fresh, N3.fresh, d, mode, r)

\* tm_copy with the direction of the search for DST reversed
tm_copy_reversed(G, d, r) ==
  tm_copy_helper(G, -d, BLANK_BEFORE_DST, r)

tm_copy(G, d, r) ==
  tm_copy_helper(G, d, BLANK_BEFORE_DST, r)

tm_copy_to_scratch(G, d, r) ==
  tm_copy_helper(G, d, BLANK_AFTER_DST, r)

\* tm_copy_compact with tm_copy's mode: a blank before every copied bit
tm_copy_compact_spread(G, d, r) ==
  tm_copy_helper(G, d, BLANK_BEFORE_DST, r)

tm_copy_compact(G, d, r) ==
  tm_copy_helper(G, d, 0, r)

\* the idiom  q = tm_copy(q, d, new_state())
copy_new(G, d) ==
  IF G.err THEN G
  ELSE LET N == new_state(G) IN tm_copy(N, d, N.fresh)

\* the idiom  q = tm_copy_to_scratch(q, d, new_state())
copy_to_scratch_new(G, d) ==
  IF G.err THEN G
  ELSE LET N == new_state(G) IN tm_copy_to_scratch(N, d, N.fresh)

\* the idiom  q = tm_copy_compact(q, d, new_state())
copy_compact_new(G, d) ==
  IF G.err THEN G
  ELSE LET N == new_state(G) IN tm_copy_compact(N, d, N.fresh)

\* tm_add with the carry out of 1 + 1 dropped (m1 goes back to s0)
tm_add_carry_lost(G, r) ==
  LET s0 == G.q
      Ns1 == new_state(G)
      s1 == Ns1.fresh
      Nm0 == new_state(Ns1)
      m0 == Nm0.fresh
      Nm1 == new_state(Nm0)
      m1 == Nm1.fresh
      Nm2 == new_state(Nm1)
      m2 == Nm2.fresh
      A == tm_write_if2(Nm2, ZERO, BLANK, -1, m0, ONE, BLANK, -1, m1,
                        BLANK, 0, r)
      B == tm_write_if2(at(A, s1), ZERO, BLANK, -1, m1, ONE, BLANK, -1, m2,
                        BLANK, 0, r)
      C == tm_write_if2(at(B, m0), ZERO, ZERO, -1, s0, ONE, ONE, -1, s0,
                        ZERO, 0, G.q_reject)
      D == tm_write_if2(at(C, m1), ZERO, ONE, -1, s0, ONE, ZERO, -1, s0,
                        ZERO, 0, G.q_reject)
      E == tm_write_if2(at(D, m2), ZERO, ZERO, -1, s1, ONE, ONE, -1, s1,
                        ZERO, 0, G.q_reject)
  IN  at(E, r)

tm_add(G, r) ==
  LET s0 == G.q
      Ns1 == new_state(G)
      s1 == Ns1.fresh
      Nm0 == new_state(Ns1)
      m0 == Nm0.fresh
      Nm1 == new_state(Nm0)
      m1 == Nm1.fresh
      Nm2 == new_state(Nm1)
      m2 == Nm2.fresh
      A == tm_write_if2(Nm2, ZERO, BLANK, -1, m0, ONE, BLANK, -1, m1,
                        BLANK, 0, r)
      B == tm_write_if2(at(A, s1), ZERO, BLANK, -1, m1, ONE, BLANK, -1, m2,
                        BLANK, 0, r)
      C == tm_write_if2(at(B, m0), ZERO, ZERO, -1, s0, ONE, ONE, -1, s0,
                        ZERO, 0, G.q_reject)
      D == tm_write_if2(at(C, m1), ZERO, ONE, -1, s0, ONE, ZERO, -1, s1,
                        ZERO, 0, G.q_reject)
      E == tm_write_if2(at(D, m2), ZERO, ZERO, -1, s1, ONE, ONE, -1, s1,
                        ZERO, 0, G.q_reject)
  IN  at(E, r)

tm_sub(G, r) ==
  LET s0 == G.q
      Ns1 == new_state(G)
      s1 == Ns1.fresh
      Nm0 == new_state(Ns1)
      m0 == Nm0.fresh
      Nm1 == new_state(Nm0)
      m1 == Nm1.fresh
      Nm2 == new_state(Nm1)
      m2 == Nm2.fresh
      A == tm_write_if2(Nm2, ZERO, BLANK, -1, m0, ONE, BLANK, -1, m1,
                        BLANK, 0, r)
      B == tm_write_if2(at(A, s1), ZERO, BLANK, -1, m1, ONE, BLANK, -1, m2,
                        BLANK, 0, r)
      C == tm_write_if2(at(B, m0), ZERO, ZERO, -1, s0, ONE, ONE, -1, s0,
                        ZERO, 0, G.q_reject)
      D == tm_write_if2(at(C, m1), ZERO, ONE, -1, s1, ONE, ZERO, -1, s0,
                        ZERO, 0, G.q_reject)
      E == tm_write_if2(at(D, m2), ZERO, ZERO, -1, s1, ONE, ONE, -1, s1,
                        ZERO, 0, G.q_reject)
  IN  at(E, r)

\* the idiom  q = tm_add(q, new_state())
add_new(G) ==
  IF G.err THEN G
  ELSE LET N == new_state(G) IN tm_add(N, N.fresh)

\* the idiom  q = tm_sub(q, new_state())
sub_new(G) ==
  IF G.err THEN G
  ELSE LET N == new_state(G) IN tm_sub(N, N.fresh)

(***************************************************************************)
(* target_tm.  A module is [text |-> <<inst, ...>>, data |-> <<v, ...>>];  *)
(* an inst is [pc, op, dst, src, jmp], a value is [type, v] with type      *)
(* "REG" or "IMM".  (The modules run below also carry a field unit, which  *)
(* says what is run: a whole program, one instruction or one function.)    *)
(***************************************************************************)
Reg(r) == [type |-> "REG", v |-> r]
Imm(x) == [type |-> "IMM", v |-> x]
Inst(pc, op, dst, src) ==
  [pc |-> pc, op |-> op, dst |-> Reg(dst), src |-> src, jmp |-> src]

\* next_state = 0; for each inst: if (inst->pc >= next_state) next_state = pc+1
RECURSIVE seed_next_state(_, _, _)
seed_next_state(text, i, next_state) ==
  IF i > Len(text)
    THEN next_state
    ELSE seed_next_state(text, i + 1,
           IF text[i].pc >= next_state THEN text[i].pc + 1 ELSE next_state)

\* write_block with the two words exchanged: the value in the index field
write_block_swapped(G, marker, index, value) ==
  IF G.err THEN G
  ELSE
    write_word_new(
      write_new(
        write_new(
          write_word_new(
            write_new(write_new(G, BLANK, 1), marker, 1),
            value),
          BLANK, 1),
        VALUE, 1),
      index)

\* one block of the tape: blank, marker, index word, blank, VALUE, value word
write_block(G, marker, index, value) ==
  IF G.err THEN G
  ELSE
    write_word_new(
      write_new(
        write_new(
          write_word_new(
            write_new(write_new(G, BLANK, 1), marker, 1),
            index),
          BLANK, 1),
        VALUE, 1),
      value)

\* for (Reg reg=0; reg<6; reg++)
RECURSIVE init_registers(_, _)
init_registers(G, reg) ==
  IF G.err THEN G
  ELSE IF reg < num_regs
    THEN init_registers(write_block(G, REGISTER, reg, 0), reg + 1)
    ELSE G

\* while (data) { ...; data = data->next; mp++; }
RECURSIVE init_memory(_, _, _)
init_memory(G, data, mp) ==
  IF G.err THEN G
  ELSE IF mp < Len(data)
    THEN init_memory(write_block(G, ADDRESS, mp, data[mp + 1]), data, mp + 1)
    ELSE G

\* q_reject = new_state(); int q = 0; ... up to the first instruction
prologue(G, data) ==
  LET R == new_state(G)
  IN  rewind_new(
        write_new(
          write_new(
            init_memory(
              init_registers(
                write_new(at([R EXCEPT !.q_reject = R.fresh], 0), START, 1),
                0),
              data, 0),
            BLANK, 1),
          END, -1))

case_MOV(G, inst) ==
  IF inst.dst.type # "REG" THEN error(G)
  ELSE IF inst.src.type = "REG"
    THEN IF inst.dst.v = inst.src.v
           THEN G
           ELSE rewind_new(
                  copy_new(
                    find_register_new(
                      rewind_new(
                        write_new(find_register_new(G, inst.dst.v), DST, -1)),
                      inst.src.v),
                    intcmp(inst.dst.v, inst.src.v)))
  ELSE IF inst.src.type = "IMM"
    THEN rewind_new(
           write_word_new(find_register_new(G, inst.dst.v), inst.src.v))
  ELSE error(G)

\* case ADD/SUB: the operand is put in the scratch cells of the destination
ADD_SUB_operand(G, inst) ==
  IF G.err THEN G
  ELSE
    IF inst.src.type = "REG"
      THEN IF inst.dst.v = inst.src.v
             THEN error(G)
             ELSE move_new(
                    copy_to_scratch_new(
                      find_register_new(
                        rewind_new(write_new(move_new(G, 1), DST, 0)),
                        inst.src.v),
                      intcmp(inst.dst.v, inst.src.v)),
                    -1)
    ELSE IF inst.src.type = "IMM"
      THEN write_word_new(G, inst.src.v)
    ELSE error(G)

\* case ADD/SUB: if (inst->op == ADD) ... else if (inst->op == SUB) ...
ADD_SUB_apply(G, inst) ==
  IF G.err THEN G
  ELSE
    IF inst.op = "ADD" THEN add_new(G)
    ELSE IF inst.op = "SUB" THEN sub_new(G)
    ELSE G

case_ADD_SUB(G, inst) ==
  IF inst.dst.type # "REG" THEN error(G)
  ELSE rewind_new(
         ADD_SUB_apply(
           move_new(
             ADD_SUB_operand(
               move_new(find_register_new(G, inst.dst.v), 1),
               inst),
             -1),
           inst))

case_JMP(G, inst) ==
  IF inst.jmp.type = "REG" THEN error(G)
  ELSE IF inst.jmp.type = "IMM" THEN tm_noop(G, inst.jmp.v)
  ELSE error(G)

\* case PUTC: the byte is written after the OUTPUT marker
PUTC_source(G, inst) ==
  IF G.err THEN G
  ELSE
    IF inst.src.type = "REG"
      THEN copy_new(
             find_register_new(rewind_new(write_new(G, DST, -1)), inst.src.v),
             1)
    ELSE IF inst.src.type = "IMM"
      THEN write_byte_new(G, inst.src.v)
    ELSE error(G)

\* case PUTC writing the end sentinel right after the word, with no blank
\* in between
case_PUTC_no_blank(G, inst) ==
  rewind_new(
    write_new(
      PUTC_source(write_new(ffwd_new(G), OUTPUT, 1), inst),
      END, 0))

case_PUTC(G, inst) ==
  rewind_new(
    write_new(
      write_new(
        PUTC_source(write_new(ffwd_new(G), OUTPUT, 1), inst),
        BLANK, 1),
      END, 0))

\* EXIT_clear going back over the tape without blanking it
EXIT_clear_moves(G, q_findo, q_clear) ==
  IF G.err THEN G
  ELSE
    LET F == ffwd_new(at(tm_write(G, DST, 1, q_findo), q_clear))
    IN  at(tm_move_if(F, DST, 0, -1, -1, F.q), G.q)

\* case EXIT from  tm_write(q, DST, +1, q_findo)  on; G is the context the
\* compaction returns, and q stays the state it returned
EXIT_clear(G, q_findo, q_clear) ==
  IF G.err THEN G
  ELSE
    LET F == ffwd_new(at(tm_write(G, DST, 1, q_findo), q_clear))
    IN  at(tm_write_if(F, DST, BLANK, 0, -1, BLANK, -1, F.q), G.q)

\* case EXIT putting its first DST marker one cell right of the start
\* sentinel, which it keeps
case_EXIT_keeps_start(G, inst) ==
  LET A == write_new(move_new(G, 1), DST, 1)
      q_findo == A.q
      Nc == new_state(A)
      q_clear == Nc.fresh
  IN  EXIT_clear(
        copy_compact_new(
          write_new(find_new(Nc, 1, OUTPUT, q_clear), BLANK, 1), -1),
        q_findo, q_clear)

case_EXIT(G, inst) ==
  LET A == write_new(G, DST, 1)
      q_findo == A.q
      Nc == new_state(A)
      q_clear == Nc.fresh
  IN  EXIT_clear(
        copy_compact_new(
          write_new(find_new(Nc, 1, OUTPUT, q_clear), BLANK, 1), -1),
        q_findo, q_clear)

\* switch (inst->op)
translate(G, inst) ==
  CASE inst.op = "MOV" -> case_MOV(G, inst)
    [] inst.op \in {"ADD", "SUB"} -> case_ADD_SUB(G, inst)
    [] inst.op = "JMP" -> case_JMP(G, inst)
    [] inst.op = "PUTC" -> case_PUTC(G, inst)
    [] inst.op = "EXIT" -> case_EXIT(G, inst)
    [] inst.op = "DUMP" -> G
    [] OTHER -> error(G)

\* "If new pc, transition to state corresponding to new pc"
stitch(G, prev_pc, inst) ==
  IF inst.pc # prev_pc /\ G.q # inst.pc
    THEN tm_noop(G, inst.pc)
    ELSE G

\* marks[i] notes where the "// inst" comment line of instruction i falls in
\* the output (at: the number of transitions printed before it), where its
\* switch case starts (code: the number of transitions printed before the
\* case, entry: the value of q there) and the value of q the previous
\* instruction left (from).  G is the context after the "new pc" test.
mark(G, at_line, from) ==
  [G EXCEPT !.marks = Append(@, [at |-> at_line, code |-> Len(G.lines),
                                 entry |-> G.q, from |-> from])]

\* for (Inst* inst = module->text; inst; inst = inst->next)
RECURSIVE translate_all(_, _, _, _)
translate_all(G, prev_pc, text, i) ==
  IF i > Len(text) \/ G.err
    THEN G
    ELSE translate_all(
           translate(
             mark(stitch(G, prev_pc, text[i]), Len(G.lines), G.q),
             text[i]),
           text[i].pc, text, i + 1)

\* the bounds of the modules translated: pcs 0 .. MaxPc, data segments of up
\* to MaxData bytes
MaxPc == 2
MaxData == 1

\* data segments: the first n of the bytes 72, 73, 74, ...
DataSegs == {[i \in 1 .. n |-> 71 + i] : n \in 0 .. MaxData}

\* the generator when target_tm has set next_state past the highest pc
context(next_state) ==
  [next_state |-> next_state, q_reject |-> -1, lines |-> <<>>, q |-> 0,
   fresh |-> 0, err |-> FALSE, marks |-> <<>>]

\* the prologue depends on the highest pc and on the data segment only: it
\* is tabulated, for the modules translated share it
Prologues ==
  [c \in (1 .. (MaxPc + 1)) \X DataSegs |-> prologue(context(c[1]), c[2])]

target_tm(m) ==
  translate_all(Prologues[<<seed_next_state(m.text, 1, 0), m.data>>],
                0, m.text, 1)

(***************************************************************************)
(* The emitted table, read as a Turing machine.  Every emitter prints      *)
(* num_symbols consecutive lines for one state, so the table is looked up  *)
(* by the offsets at which a state's groups of lines start.                *)
(***************************************************************************)
MaxTape == 300
MaxLeft == 2

\* the highest state number that is the source of a line, plus one
num_states(G) ==
  IF G.next_state > G.q + 1 THEN G.next_state ELSE G.q + 1

\* starts with the offsets k of the groups lo .. hi added, each to the entry
\* of the state its lines are printed for (group j is lines k+1 .. k+12 for
\* k = 12 (j - 1)); the groups are halved so that the nesting stays shallow
RECURSIVE add_groups(_, _, _, _)
add_groups(starts, lines, lo, hi) ==
  IF lo > hi \/ Len(starts) = 0
    THEN starts
    ELSE IF lo = hi
      THEN LET k == num_symbols * (lo - 1)
           IN  [starts EXCEPT ![lines[k + 1][1] + 1] = @ \cup {k}]
      ELSE add_groups(add_groups(starts, lines, lo, (lo + hi) \div 2),
                      lines, (lo + hi) \div 2 + 1, hi)

\* for each state q (at index q+1) the offsets k such that lines k+1..k+12
\* are a group printed for q
group_starts(G) ==
  add_groups([q1 \in 1 .. num_states(G) |-> {}], G.lines,
             1, Len(G.lines) \div num_symbols)

\* what the run reads of a generated table
table_of(G) ==
  [lines |-> G.lines, starts |-> group_starts(G), err |-> G.err,
   q_reject |-> G.q_reject, next_state |-> G.next_state, final |-> G.q,
   marks |-> G.marks]

\* the offsets of the groups of lines printed for state q
groups(T, q) ==
  IF q >= 0 /\ q < Len(T.starts) THEN T.starts[q + 1] ELSE {}

\* the lines that apply in state q reading symbol a
applicable(T, q, a) ==
  {k + a + 1 : k \in {g \in groups(T, q) : /\ T.lines[g + a + 1][1] = q
                                           /\ T.lines[g + a + 1][2] = a}}

\* the instruction whose comment line is the last one before line k
\* (0: none, the line belongs to the prologue)
owner(T, k) ==
  Cardinality({i \in DOMAIN T.marks : T.marks[i].at < k})

\* line k is the "new pc" noop printed before instruction owner(T, k)'s case
is_stitch(T, k) ==
  owner(T, k) > 0 /\ k <= T.marks[owner(T, k)].code

VARIABLES module, phase, state, head, tape, line
vars == <<module, phase, state, head, tape, line>>

\* the symbol in cell c (cells are numbered from -MaxLeft; unwritten cells
\* are blank)
cell(tp, c) ==
  IF c + MaxLeft + 1 <= Len(tp) THEN tp[c + MaxLeft + 1] ELSE BLANK

blank_tape == [i \in 1 .. MaxLeft |-> BLANK]

\* the tape with symbol b written in cell c
written(tp, c, b) ==
  IF c + MaxLeft + 1 <= Len(tp)
    THEN [tp EXCEPT ![c + MaxLeft + 1] = b]
    ELSE Append(tp, b)

\* one move of the machine by line k of table T: write, move, change state;
\* line remembers the line applied last
Step(T) ==
  /\ phase = "tm"
  /\ \E k \in applicable(T, state, cell(tape, head)) :
       /\ head + T.lines[k][5] >= -MaxLeft
       /\ head + T.lines[k][5] < MaxTape
       /\ tape' = written(tape, head, T.lines[k][4])
       /\ head' = head + T.lines[k][5]
       /\ state' = T.lines[k][3]
       /\ line' = k
  /\ UNCHANGED <<module, phase>>

\* no line applies: the machine stops
Halt(T) ==
  /\ phase = "tm"
  /\ applicable(T, state, cell(tape, head)) = {}
  /\ phase' = "halt"
  /\ UNCHANGED <<module, state, head, tape, line>>

(***************************************************************************)
(* The modules translated and run.                                         *)
(***************************************************************************)
\* MOV r0,5; MOV r1,3; ADD r0,r1; PUTC r0; EXIT
Scenario1 ==
  [unit |-> "program",
   text |-> << Inst(0, "MOV", 0, Imm(5)), Inst(0, "MOV", 1, Imm(3)),
               Inst(0, "ADD", 0, Reg(1)), Inst(0, "PUTC", 0, Reg(0)),
               Inst(0, "EXIT", 0, Imm(0)) >>,
   data |-> <<>>]

\* one basic block per pc
SeqPcs ==
  [unit |-> "program",
   text |-> << Inst(0, "MOV", 0, Imm(1)), Inst(1, "PUTC", 0, Reg(0)),
               Inst(2, "EXIT", 0, Imm(0)) >>,
   data |-> <<>>]

\* the basic blocks pc .. MaxPc, each  PUTC 64+pc; EXIT
RECURSIVE putc_blocks(_)
putc_blocks(pc) ==
  IF pc > MaxPc
    THEN <<>>
    ELSE << Inst(pc, "PUTC", 0, Imm(64 + pc)), Inst(pc, "EXIT", 0, Imm(0)) >>
           \o putc_blocks(pc + 1)

\* pc 0: JMP t, followed by the blocks 1 .. MaxPc
JumpModule(t) ==
  [unit |-> "program",
   text |-> << Inst(0, "JMP", 0, Imm(t)) >> \o putc_blocks(1),
   data |-> <<>>]

\* an instruction placed after an EXIT
AfterExit ==
  [unit |-> "program",
   text |-> << Inst(0, "EXIT", 0, Imm(0)), Inst(0, "PUTC", 0, Imm(65)) >>,
   data |-> <<>>]

\* arithmetic on the last register, from a register
AddLast(data) ==
  [unit |-> "program",
   text |-> << Inst(0, "MOV", 0, Imm(3)), Inst(0, "ADD", 5, Reg(0)),
               Inst(0, "PUTC", 0, Reg(5)), Inst(0, "EXIT", 0, Imm(0)) >>,
   data |-> data]

\* a register-indirect jump
JmpReg ==
  [unit |-> "program",
   text |-> << Inst(0, "MOV", 0, Imm(1)), Inst(1, "JMP", 0, Reg(0)) >>,
   data |-> <<>>]

Modules ==
  {Scenario1, SeqPcs, AfterExit, JmpReg}
    \cup {JumpModule(t) : t \in 0 .. MaxPc}
    \cup {AddLast(data) : data \in DataSegs}

(***************************************************************************)
(* Programs run to their end: straight-line programs that output bytes and *)
(* exit, and programs that leave the straight line.                        *)
(***************************************************************************)
\* the most PUTC instructions a straight-line program has
MaxPutc == 2

\* the operands of the PUTCs: an immediate wider than a byte and two
\* registers, the last one included
PutcSrcs == {Imm(300), Reg(1), Reg(5)}

\* MOV r1,77; PUTC srcs[1]; ...; PUTC srcs[n]; EXIT
PutcProgram(srcs) ==
  [unit |-> "program",
   text |-> << Inst(0, "MOV", 1, Imm(77)) >>
            \o [i \in 1 .. Len(srcs) |-> Inst(0, "PUTC", 0, srcs[i])]
            \o << Inst(0, "EXIT", 0, Imm(0)) >>,
   data |-> <<>>]

PutcPrograms ==
  {PutcProgram(srcs) : srcs \in UNION {[1 .. n -> PutcSrcs] : n \in 0 .. MaxPutc}}

\* a conditional jump to pc p, taken when  dst op x  holds
Jcc(pc, op, dst, x, p) ==
  [pc |-> pc, op |-> op, dst |-> Reg(dst), src |-> Imm(x), jmp |-> Imm(p)]

\* scenario 3: r0 counts down from 3 and is output on each turn; the jump
\* at the end of the loop goes back to pc 1 until r0 has passed 0
Scenario3(op, x) ==
  [unit |-> "program",
   text |-> << Inst(0, "MOV", 0, Imm(3)), Inst(1, "PUTC", 0, Reg(0)),
               Inst(1, "SUB", 0, Imm(1)), Jcc(1, op, 0, x, 1),
               Inst(2, "EXIT", 0, Imm(0)) >>,
   data |-> <<>>]

\* the loop closed by "jump if r0 # 255" and by "jump if r0 <= 3"
Scenario3s == {Scenario3("JNE", 255), Scenario3("JLE", 3)}

\* arithmetic from the destination register itself
SameReg ==
  [unit |-> "program",
   text |-> << Inst(0, "MOV", 0, Imm(1)), Inst(0, "ADD", 0, Reg(0)) >>,
   data |-> <<>>]

\* a jump back to pc 0
Restart ==
  [unit |-> "program",
   text |-> << Inst(0, "MOV", 0, Imm(1)), Inst(0, "PUTC", 0, Reg(0)),
               Inst(0, "JMP", 0, Imm(0)) >>,
   data |-> <<>>]

RunModules ==
  PutcPrograms \cup Scenario3s \cup {JmpReg, SameReg, Restart}

(***************************************************************************)
(* Units run on their own: one micro-machine, or the code of one           *)
(* instruction, started on a tape laid out as its callers lay it out.      *)
(***************************************************************************)
\* a word in the spread layout: a blank scratch cell before each bit, most
\* significant bit first (what tm_write_word leaves on a blank tape)
spread(x) ==
  [i \in 1 .. (2 * word_size) |->
     IF i % 2 = 1 THEN BLANK ELSE bit_symbol(x, word_size - (i \div 2))]

\* the main word a with the bits of b in the scratch cell to the right of
\* each main bit, and the blank scratch cell to the left of the word
interleaved(a, b) ==
  <<BLANK>> \o
  [i \in 1 .. (2 * word_size) |->
     IF i % 2 = 1 THEN bit_symbol(a, word_size - ((i + 1) \div 2))
                  ELSE bit_symbol(b, word_size - (i \div 2))]

\* the generator as target_tm has it when it emits a unit: q_reject
\* allocated, the current state q fresh
unit_context ==
  LET R == new_state(context(0))
      Q == new_state([R EXCEPT !.q_reject = R.fresh])
  IN  mark(at(Q, Q.fresh), 0, Q.fresh)

\* q = tm_add(q, new_state())  /  q = tm_sub(q, new_state())
arith_unit(op) ==
  IF op = "ADD" THEN add_new(unit_context) ELSE sub_new(unit_context)

\* q = tm_copy(q, d, new_state())
copy_unit(d) ==
  copy_new(unit_context, d)

\* q = tm_write_byte(q, x, new_state())
bits_unit(x) ==
  write_byte_new(unit_context, x)

\* the register indices looked for: the six registers and two indices no
\* block has
FindRegs == 0 .. (num_regs + 1)

\* q = tm_find_register(q, reg, new_state())
find_unit(reg) ==
  find_register_new(unit_context, reg)

\* the data segments laid out by the prologue run on its own: up to one
\* byte more than the programs translated have
LayoutSegs == {[i \in 1 .. n |-> 71 + i] : n \in 0 .. (MaxData + 1)}

\* target_tm up to the first instruction, for a program whose highest pc
\* is 0
prologue_unit(data) ==
  prologue(context(1), data)

Words == 0 .. (2 ^ word_size - 1)

\* the immediate operands tried
Imms == {1, 200}

\* what the registers hold when the instruction starts
RegValues == <<3, 250, 77, 128, 255, 1>>

\* the operands of an instruction that writes register d: an immediate or
\* another register
operands(d) ==
  {Reg(r) : r \in (0 .. (num_regs - 1)) \ {d}} \cup {Imm(x) : x \in Imms}

\* one instruction that writes a register, with each data segment
InstModules ==
  UNION {{[unit |-> "inst", text |-> <<Inst(0, op, d, src)>>, data |-> data] :
            op \in {"MOV", "ADD", "SUB"}, src \in operands(d),
            data \in DataSegs} :
         d \in 0 .. (num_regs - 1)}

\* one PUTC, of each register and of two immediates (one wider than a
\* byte), with each data segment
PutcInsts ==
  {[unit |-> "inst", text |-> <<Inst(0, "PUTC", 0, src)>>, data |-> data] :
     src \in {Reg(r) : r \in 0 .. (num_regs - 1)} \cup {Imm(65), Imm(300)},
     data \in DataSegs}

\* the output cells a tape may already hold when an instruction starts
Earlier == {<<>>, <<90>>}

\* one block of the tape, as write_block leaves it
block(marker, index, value) ==
  <<BLANK, marker>> \o spread(index) \o <<BLANK, VALUE>> \o spread(value)

block_size == 4 + 4 * word_size

\* the blocks of the values vals[i], i + 1, ..., with indices i - 1, i, ...
RECURSIVE blocks(_, _, _)
blocks(marker, vals, i) ==
  IF i > Len(vals)
    THEN <<>>
    ELSE block(marker, i - 1, vals[i]) \o blocks(marker, vals, i + 1)

\* the tape the prologue lays out, with the registers holding regs
canonical(regs, data) ==
  <<START>> \o blocks(REGISTER, regs, 1) \o blocks(ADDRESS, data, 1)
    \o <<BLANK, END>>

\* the output cells of the bytes outs[i], outs[i + 1], ...: OUTPUT, the
\* word, and the blank before the next cell or the end sentinel
RECURSIVE output_cells(_, _)
output_cells(outs, i) ==
  IF i > Len(outs)
    THEN <<>>
    ELSE <<OUTPUT>> \o spread(outs[i]) \o <<BLANK>> \o output_cells(outs, i + 1)

\* the canonical tape with the output cells of the bytes outs before the
\* end sentinel
canonical_out(regs, data, outs) ==
  <<START>> \o blocks(REGISTER, regs, 1) \o blocks(ADDRESS, data, 1)
    \o <<BLANK>> \o output_cells(outs, 1) \o <<END>>

\* the canonical tapes the instructions start on
Canonical ==
  [data \in DataSegs |-> blank_tape \o canonical(RegValues, data)]

ArithTables == [op \in {"ADD", "SUB"} |-> table_of(arith_unit(op))]

\* the tables of all the modules translated
Tables ==
  [m \in Modules \cup InstModules \cup RunModules \cup PutcInsts |->
     table_of(target_tm(m))]

CopyTables == [d \in {-1, 0, 1} |-> table_of(copy_unit(d))]

BitsTables == [x \in Words |-> table_of(bits_unit(x))]

FindTables == [reg \in FindRegs |-> table_of(find_unit(reg))]

PrologueTables == [data \in LayoutSegs |-> table_of(prologue_unit(data))]

\* the program of a module, without what the module says of its run
program_of(m) ==
  [unit |-> m.unit, text |-> m.text, data |-> m.data]

\* the table emitted for the module being run
Table ==
  CASE module.unit = "arith" -> ArithTables[module.op]
    [] module.unit = "copy" -> CopyTables[module.d]
    [] module.unit = "bits" -> BitsTables[module.x]
    [] module.unit = "find" -> FindTables[module.reg]
    [] module.unit = "prologue" -> PrologueTables[module.data]
    [] module.unit \in {"program", "inst"} -> Tables[program_of(module)]

Init ==
  /\ module \in Modules
  /\ phase = "ir"
  /\ state = 0
  /\ head = 0
  /\ tape = blank_tape
  /\ line = 0

\* target_tm(module) ran to its end: the table is complete and the machine
\* starts in state 0 on a blank tape
Generate ==
  /\ phase = "ir"
  /\ ~Table.err
  /\ phase' = "tm"
  /\ UNCHANGED <<module, state, head, tape, line>>

\* target_tm(module) called error()
Abort ==
  /\ phase = "ir"
  /\ Table.err
  /\ phase' = "abort"
  /\ UNCHANGED <<module, state, head, tape, line>>

Run == Step(Table)

Stop == Halt(Table)

Next == Generate \/ Abort \/ Run \/ Stop

Spec == Init /\ [][Next]_vars

(***************************************************************************)
(* Whole programs, run from state 0 on a blank tape.                       *)
(***************************************************************************)
\* the pcs that occur in the program
Pcs(text) == {text[i].pc : i \in DOMAIN text}

\* the first instruction of pc p
first_of(text, p) ==
  CHOOSE i \in DOMAIN text :
    text[i].pc = p /\ \A j \in 1 .. (i - 1) : text[j].pc # p

\* the table has been emitted and the machine has not moved yet
emitted == phase = "tm" /\ line = 0

\* the prologue has just ended: its last transition has led to the state it
\* hands to the first instruction
prologue_ended ==
  /\ phase = "tm"
  /\ line # 0
  /\ owner(Table, line) = 0
  /\ state = Table.marks[1].from

\* the tape the prologue leaves is the canonical tape with every register 0,
\* the head on the start sentinel
PrologueLaysCanonical ==
  prologue_ended =>
    /\ head = 0
    /\ tape = blank_tape \o canonical([r \in 1 .. num_regs |-> 0], module.data)

\* C1: the emitted table has at most one transition for each (state,
\* read-symbol) pair: every line is the only line that applies to its own
\* state and symbol.
C1_Deterministic ==
  emitted =>
    \A k \in 1 .. Len(Table.lines) :
      applicable(Table, Table.lines[k][1], Table.lines[k][2]) = {k}

\* C2: every state the machine reaches from state 0 on a blank tape has
\* exactly one emitted transition for each of the 12 symbols.
C2_Totality ==
  phase = "tm" =>
    \A a \in Symbols : Cardinality(applicable(Table, state, a)) = 1

\* C3: whenever the machine is in state p, for a pc p of the program, with
\* the head on the start sentinel, the transitions that apply are those of
\* the code emitted for the first instruction of pc p (and not the prologue,
\* another instruction, or a "new pc" noop).
C3_PcAliasing ==
  (phase = "tm" /\ state \in Pcs(module.text) /\ cell(tape, head) = START) =>
    \A k \in applicable(Table, state, START) :
      /\ owner(Table, k) = first_of(module.text, state)
      /\ ~is_stitch(Table, k)

\* the line applied last is the noop emitted by case JMP
jumped ==
  /\ phase = "tm"
  /\ line # 0
  /\ owner(Table, line) > 0
  /\ ~is_stitch(Table, line)
  /\ module.text[owner(Table, line)].op = "JMP"

\* C4: right after the transition emitted for JMP p the machine is in state
\* p, the jump wrote back the symbol it read and did not move the head, and
\* the only transitions that apply are those of the first instruction of pc
\* p: never a "new pc" noop into the instruction that follows the JMP.
C4_JmpOnly ==
  jumped =>
    LET p == module.text[owner(Table, line)].jmp.v
    IN  /\ state = p
        /\ Table.lines[line][4] = Table.lines[line][2]
        /\ Table.lines[line][5] = 0
        /\ \A k \in applicable(Table, state, cell(tape, head)) :
              /\ owner(Table, k) = first_of(module.text, p)
              /\ ~is_stitch(Table, k)

\* C9: no execution from state 0 on a blank tape enters the reject state.
C9_NoReject ==
  phase \in {"tm", "halt"} => state # Table.q_reject

(***************************************************************************)
(* Scenario 1, run to its end.  The machine is run by an interpreter that  *)
(* applies a transition whenever one applies, so the run is weakly fair.   *)
(***************************************************************************)
\* the number of consecutive bit cells from cell c on
RECURSIVE bits_from(_, _)
bits_from(tp, c) ==
  IF cell(tp, c) \in {ZERO, ONE} THEN 1 + bits_from(tp, c + 1) ELSE 0

\* the value of the n bits, most significant first, in cells c, c + step, ...
RECURSIVE word_at(_, _, _, _)
word_at(tp, c, n, step) ==
  IF n = 0
    THEN 0
    ELSE (IF cell(tp, c) = ONE THEN 2 ^ (n - 1) ELSE 0)
           + word_at(tp, c + step, n - 1, step)

\* the output left on the tape at halt: the run of bits from cell 0 on,
\* word_size bits to the byte
output_bytes(tp) ==
  [i \in 1 .. (bits_from(tp, 0) \div word_size) |->
     word_at(tp, word_size * (i - 1), word_size, 1)]

\* every cell outside lo .. hi is blank
blank_outside(tp, lo, hi) ==
  \A c \in (-MaxLeft) .. (Len(tp) - MaxLeft - 1) :
    (c < lo \/ c > hi) => cell(tp, c) = BLANK

InitS1 == Init /\ module = Scenario1

NextS1 == Generate \/ Run \/ Stop

SpecS1 == InitS1 /\ [][NextS1]_vars /\ WF_vars(NextS1)

\* the machine has halted in EXIT's halting state with exactly the byte 8 on
\* the tape
S1_HaltedWith8 ==
  /\ phase = "halt"
  /\ state = -1
  /\ output_bytes(tape) = <<8>>
  /\ blank_outside(tape, 0, word_size - 1)

\* C10: scenario 1 never passes through the reject state, and eventually
\* halts with exactly one output byte, of value 8, on the tape.
C10_Scenario1 ==
  /\ [](state # Table.q_reject)
  /\ <>S1_HaltedWith8

\* C10 witness: the run of scenario 1 has used ADD's and PUTC's code and has
\* halted with the byte 8
C10_Witness ==
  /\ module = Scenario1
  /\ S1_HaltedWith8
  /\ line > Table.marks[5].code

(***************************************************************************)
(* tm_add and tm_sub on their own, for every pair of words.                *)
(***************************************************************************)
InitArith ==
  /\ \E op \in {"ADD", "SUB"}, a \in Words, b \in Words :
       module = [unit |-> "arith", op |-> op, a |-> a, b |-> b]
  /\ phase = "tm"
  /\ state = Table.marks[1].entry
  /\ head = 2 * word_size
  /\ tape = blank_tape \o interleaved(module.a, module.b)
  /\ line = 0

NextArith == Run \/ Stop

SpecArith == InitArith /\ [][NextArith]_vars

\* what the main cells must hold in the end
arith_result ==
  IF module.op = "ADD" THEN (module.a + module.b) % (2 ^ word_size)
                       ELSE (module.a - module.b) % (2 ^ word_size)

\* the machine stopped in r, head on the scratch cell left of the word, the
\* result in the main cells, every scratch cell blank, nothing written
\* outside the word
arith_done ==
  /\ state = Table.final
  /\ head = 0
  /\ word_at(tape, 1, word_size, 2) = arith_result
  /\ \A i \in 0 .. word_size : cell(tape, 2 * i) = BLANK
  /\ blank_outside(tape, 1, 2 * word_size)

\* C6: for all pairs (a, b) of 8-bit words, tm_add and tm_sub never enter
\* the reject state; every transition taken moves the head one cell to the
\* left or exits to r, and the head never passes the scratch cell left of
\* the word (so the run ends); the machine stops only in r, and then the
\* main cells hold (a + b) mod 256, resp. (a - b) mod 256, every scratch
\* bit is blank, no carry or borrow is written left of the word, and the
\* head is on the scratch cell left of the result.
C6_Arith ==
  /\ state # Table.q_reject
  /\ head >= 0
  /\ line # 0 => Table.lines[line][5] = -1 \/ state = Table.final
  /\ state = Table.final => arith_done
  /\ phase = "halt" => state = Table.final

\* C6 witness: an addition or a subtraction that wraps around has ended
C6_Witness ==
  /\ phase = "halt"
  /\ arith_done
  /\ \/ module.op = "ADD" /\ module.a + module.b > 2 ^ word_size
     \/ module.op = "SUB" /\ module.a < module.b

(***************************************************************************)
(* tm_copy on its own, for every source word.  The destination word holds  *)
(* the complement of the source word, so that every bit has to be copied.  *)
(***************************************************************************)
\* the destination word with the DST marker on the scratch cell to its left
marked(y) == <<DST>> \o Tail(spread(y))

complement(x) == 2 ^ word_size - 1 - x

\* the tape of a copy (from cell 0 on), as between two value fields
copy_tape(side, x) ==
  IF side = 1
    THEN <<START>> \o spread(x) \o <<BLANK, VALUE>> \o marked(complement(x))
           \o <<BLANK, END>>
    ELSE <<START, BLANK, VALUE>> \o marked(complement(x)) \o <<BLANK, VALUE>>
           \o spread(x) \o <<BLANK, END>>

\* the scratch cell left of the source word, resp. of the destination word
copy_src(side) == IF side = 1 THEN 1 ELSE 5 + 2 * word_size

copy_dst(side) == IF side = 1 THEN 3 + 2 * word_size ELSE 3

\* tm_copy with direction argument d; the destination word lies on side
\* "side" of the source word (+1: to its right, -1: to its left), which is
\* where d = side looks for it
InitCopy ==
  /\ \E d \in {-1, 0, 1}, side \in {-1, 1}, x \in Words :
       /\ d \in {0, side}
       /\ module = [unit |-> "copy", d |-> d, side |-> side, x |-> x]
  /\ phase = "tm"
  /\ state = Table.marks[1].entry
  /\ head = copy_src(module.side)
  /\ tape = blank_tape \o copy_tape(module.side, module.x)
  /\ line = 0

NextCopy == Run \/ Stop

SpecCopy == InitCopy /\ [][NextCopy]_vars /\ WF_vars(NextCopy)

\* the machine stopped in r with the head on the blanked cell right of the
\* destination word, the destination bit-identical to the source, the
\* source as it was
copy_done ==
  /\ phase = "halt"
  /\ state = Table.final
  /\ head = copy_dst(module.side) + 2 * word_size
  /\ cell(tape, head) = BLANK
  /\ word_at(tape, copy_dst(module.side) + 1, word_size, 2) = module.x
  /\ word_at(tape, copy_src(module.side) + 1, word_size, 2) = module.x

\* C7 as stated: for each direction argument d in {+1, -1, 0} and every
\* source word, tm_copy terminates in r with the destination word
\* bit-identical to the source word.
C7_CopyAnyDirection == <>copy_done

\* C7 amended: for d = +1 with the destination to the right of the source,
\* and d = -1 with the destination to its left, and every source word,
\* tm_copy terminates in r with the destination word bit-identical to the
\* source word.
C7_CopyFidelity == (module.d # 0) => <>copy_done

\* C7 witness: a copy to the left has ended with the destination rewritten
C7_Witness ==
  /\ copy_done
  /\ module.d = -1
  /\ module.x = 165

(***************************************************************************)
(* The code of one instruction, run from the canonical tape with the head  *)
(* on the start sentinel.                                                  *)
(***************************************************************************)
InitInst ==
  /\ module \in InstModules
  /\ phase = "tm"
  /\ state = Table.marks[1].entry
  /\ head = 0
  /\ tape = Canonical[module.data]
  /\ line = 0

NextInst == Run \/ Stop

SpecInst == InitInst /\ [][NextInst]_vars

\* the instruction run
the_inst == module.text[1]

\* the first cell of block n (registers first, then memory)
base(n) == 1 + block_size * n

\* the index and the value stored in block n
index_of(tp, n) == word_at(tp, base(n) + 3, word_size, 2)

value_of(tp, n) == word_at(tp, base(n) + 5 + 2 * word_size, word_size, 2)

\* the value of the instruction's operand when it starts
operand ==
  IF the_inst.src.type = "REG" THEN RegValues[the_inst.src.v + 1]
                               ELSE the_inst.src.v

\* what the destination register must hold in the end
expected ==
  LET old == RegValues[the_inst.dst.v + 1]
  IN  CASE the_inst.op = "ADD" -> (old + operand) % (2 ^ word_size)
        [] the_inst.op = "SUB" -> (old - operand) % (2 ^ word_size)
        [] the_inst.op = "MOV" -> operand

\* C5: the code of ADD d,operand and SUB d,operand, run from the canonical
\* tape, stops only in the instruction's final state, with register d
\* holding (old d + operand) mod 256, resp. (old d - operand) mod 256, and
\* the head back on the start sentinel; for every d, every operand and
\* every data segment, the empty one included.
C5_AddSub ==
  (the_inst.op \in {"ADD", "SUB"} /\ phase = "halt") =>
    /\ state = Table.final
    /\ head = 0
    /\ cell(tape, 0) = START
    /\ value_of(tape, the_inst.dst.v) = expected

\* the cells of block n that hold its marker, its VALUE marker, its index
\* bits and its value bits
main_cells(n) ==
  {base(n) + 1, base(n) + 3 + 2 * word_size}
    \cup {base(n) + 1 + 2 * k : k \in 1 .. word_size}
    \cup {base(n) + 3 + 2 * word_size + 2 * k : k \in 1 .. word_size}

\* for each destination register and data segment, the cells that hold the
\* markers, the index bits and the value bits of all the other blocks
KeptCells ==
  [c \in (0 .. (num_regs - 1)) \X DataSegs |->
     UNION {main_cells(n) : n \in (0 .. (num_regs + Len(c[2]) - 1)) \ {c[1]}}]

\* the markers, the index bits and the value bits of every block other than
\* the written one are as on the canonical tape
blocks_kept ==
  \A c \in KeptCells[<<the_inst.dst.v, module.data>>] :
    cell(tape, c) = cell(Canonical[module.data], c)

\* the transition taken last left the cell it wrote as on the canonical
\* tape, if that cell is one of the other blocks' marker, index or value cells
last_write_kept ==
  line # 0 =>
    LET c == head - Table.lines[line][5]
    IN  c \in KeptCells[<<the_inst.dst.v, module.data>>] =>
          Table.lines[line][4] = cell(Canonical[module.data], c)

\* every cell outside the value field of the block written is as on the
\* canonical tape
rest_kept ==
  LET lo == base(the_inst.dst.v) + 4 + 2 * word_size
  IN  /\ Len(tape) = Len(Canonical[module.data])
      /\ \A c \in (-MaxLeft) .. (Len(tape) - MaxLeft - 1) :
            (c < lo \/ c >= lo + 2 * word_size) =>
              cell(tape, c) = cell(Canonical[module.data], c)

\* C8: while the code of an instruction that writes register i runs, no
\* transition changes the marker, an index bit or a value bit of another
\* register (the source register included) or of a memory block; when the
\* machine has stopped, the markers, stored indices and stored values of all
\* other registers and of all memory blocks are as they were, and if it
\* stopped in the instruction's final state every cell outside register
\* i's value field is as it was.
C8_Isolation ==
  /\ last_write_kept
  /\ phase = "halt" => blocks_kept
  /\ (phase = "halt" /\ state = Table.final) => rest_kept

\* C8 witness: a register-to-register MOV has ended and has changed its
\* destination register
C8_Witness ==
  /\ phase = "halt"
  /\ state = Table.final
  /\ the_inst.op = "MOV"
  /\ the_inst.src.type = "REG"
  /\ Len(module.data) > 0
  /\ value_of(tape, the_inst.dst.v) = expected
  /\ expected # RegValues[the_inst.dst.v + 1]

(***************************************************************************)
(* Programs run from state 0 on a blank tape by an interpreter that takes  *)
(* a transition whenever one applies.                                      *)
(***************************************************************************)
InitRun ==
  /\ module \in RunModules
  /\ phase = "ir"
  /\ state = 0
  /\ head = 0
  /\ tape = blank_tape
  /\ line = 0

SpecRun == InitRun /\ [][Next]_vars /\ WF_vars(Next)

\* the value of an operand, the registers holding regs
ir_value(regs, v) ==
  IF v.type = "REG" THEN regs[v.v + 1] ELSE v.v % (2 ^ word_size)

\* the bytes a straight-line IR program outputs from instruction i on, the
\* registers holding regs and out having been output
RECURSIVE ir_output(_, _, _, _)
ir_output(text, i, regs, out) ==
  IF i > Len(text) \/ text[i].op = "EXIT"
    THEN out
    ELSE IF text[i].op = "PUTC"
      THEN ir_output(text, i + 1, regs,
                     Append(out, ir_value(regs, text[i].src)))
    ELSE IF text[i].op = "MOV"
      THEN ir_output(text, i + 1,
                     [regs EXCEPT ![text[i].dst.v + 1] =
                                    ir_value(regs, text[i].src)], out)
    ELSE ir_output(text, i + 1, regs, out)

\* what the program is to output: every register is 0 when it starts
expected_output(m) ==
  ir_output(m.text, 1, [r \in 1 .. num_regs |-> 0], <<>>)

\* the machine has halted in EXIT's halting state, the tape holding the
\* bytes out from cell 0 on and nothing else
halted_with(out) ==
  /\ phase = "halt"
  /\ state = -1
  /\ output_bytes(tape) = out
  /\ blank_outside(tape, 0, word_size * Len(out) - 1)

\* C11: the table of a program that executes k PUTCs (of registers and of
\* immediates, k = 0 included) and then EXIT eventually halts, and then the
\* tape holds the k bytes output, in the order of the PUTCs, as one run of
\* 8-bit words, most significant bit first, and every other cell is blank.
C11_OutputOrder ==
  /\ []((module \in PutcPrograms /\ phase = "halt") =>
          halted_with(expected_output(module)))
  /\ <>(module \in PutcPrograms => halted_with(expected_output(module)))

\* C11 witness: a program of two PUTCs, of a register and of an immediate
\* wider than a byte, has halted with the two bytes in this order
C11_Witness ==
  /\ module = PutcProgram(<<Reg(1), Imm(300)>>)
  /\ halted_with(<<77, 44>>)

\* the programs with an unsupported feature: a register-indirect jump,
\* arithmetic from the destination register, an opcode with no case
Unsupported == Scenario3s \cup {JmpReg, SameReg}

\* C12: generation of a program with a register-indirect JMP, a
\* same-register ADD or an unrecognized opcode ends in the abort, and at the
\* abort no transition has been emitted.
C12_AbortEmitsNothing ==
  /\ (module \in Unsupported /\ phase # "ir") => phase = "abort"
  /\ phase = "abort" => Len(Table.lines) = 0

\* C13: the programs of scenario 3 (a loop closed by a jump to the earlier
\* pc 1, in which r0 counts down from 3 and is output on each turn) are
\* accepted, and their tables output the 4 bytes 3, 2, 1, 0 in this order
\* and then halt.
C13_Scenario3 ==
  /\ [](module \in Scenario3s => phase # "abort")
  /\ <>(module \in Scenario3s => halted_with(<<3, 2, 1, 0>>))

(***************************************************************************)
(* The state identifiers of an emitted table.                              *)
(***************************************************************************)
\* the highest pc of the program: target_tm starts next_state one above it
maxPc(m) == seed_next_state(m.text, 1, 0) - 1

\* the values new_state has returned when the table is complete: it counts
\* up by one from maxPc + 1
allocated(T, m) == (maxPc(m) + 1) .. (T.next_state - 1)

\* the identifiers a transition may use: a pc or a value of new_state
state_ids(T, m) == (0 .. maxPc(m)) \cup allocated(T, m)

\* C14: in the emitted table every source state and every next state is a
\* non-negative integer that is a pc in 0 .. maxPc or a value returned by
\* new_state; these values are above maxPc, and the first of them is the
\* reject state.
C14_StateIds ==
  emitted =>
    /\ Table.q_reject = maxPc(module) + 1
    /\ \A q \in allocated(Table, module) : q > maxPc(module)
    /\ \A k \in 1 .. Len(Table.lines) :
          /\ Table.lines[k][1] \in state_ids(Table, module)
          /\ Table.lines[k][3] \in state_ids(Table, module)

\* the same with the halting state -1 allowed as the next state of a
\* transition of an EXIT
StateIdsButHalt ==
  emitted =>
    /\ Table.q_reject = maxPc(module) + 1
    /\ \A k \in 1 .. Len(Table.lines) :
          /\ Table.lines[k][1] \in state_ids(Table, module)
          /\ \/ Table.lines[k][3] \in state_ids(Table, module)
             \/ /\ Table.lines[k][3] = -1
                /\ owner(Table, k) > 0
                /\ module.text[owner(Table, k)].op = "EXIT"

(***************************************************************************)
(* tm_write_bits on its own, for every byte.  The cells it passes hold a   *)
(* symbol other than the bits to be written, so that what it leaves in the *)
(* scratch cells is seen.                                                  *)
(***************************************************************************)
\* what the cells hold before the word is written
Fills == {BLANK, ONE, DST}

InitBits ==
  /\ \E x \in Words, fill \in Fills :
       module = [unit |-> "bits", x |-> x, fill |-> fill]
  /\ phase = "tm"
  /\ state = Table.marks[1].entry
  /\ head = 0
  /\ tape = blank_tape \o [i \in 1 .. (2 * word_size + 1) |-> module.fill]
  /\ line = 0

NextBits == Run \/ Stop

SpecBits == InitBits /\ [][NextBits]_vars

\* the n cells c, c + step, ... all hold a bit
bits_at(tp, c, n, step) ==
  \A i \in 0 .. (n - 1) : cell(tp, c + step * i) \in {ZERO, ONE}

\* C15: for every byte x the chain emitted by tm_write_bits(q, x, 8, r)
\* moves right in every transition and stops only in r, with the head one
\* cell past the last bit; then the 2nd, 4th, ..., 16th cell it passed hold
\* bits that read, most significant first, as x, and the 1st, 3rd, ...,
\* 15th cell (and the cell the head is on) hold what they held.
C15_RoundTrip ==
  /\ line # 0 => Table.lines[line][5] = 1
  /\ phase = "halt" =>
       /\ state = Table.final
       /\ head = 2 * word_size
       /\ bits_at(tape, 1, word_size, 2)
       /\ word_at(tape, 1, word_size, 2) = module.x
       /\ \A i \in 0 .. word_size : cell(tape, 2 * i) = module.fill
       /\ Len(tape) = MaxLeft + 2 * word_size + 1

\* C15 witness: the byte 10100101 has been written between cells that hold
\* a marker
C15_Witness ==
  /\ phase = "halt"
  /\ module.unit = "bits"
  /\ module.x = 165
  /\ module.fill = DST
  /\ word_at(tape, 1, word_size, 2) = 165

(***************************************************************************)
(* tm_find_register on its own, from the canonical tape with the head on   *)
(* the start sentinel.                                                     *)
(***************************************************************************)
InitFind ==
  /\ \E reg \in FindRegs, data \in DataSegs :
       module = [unit |-> "find", reg |-> reg, data |-> data]
  /\ phase = "tm"
  /\ state = Table.marks[1].entry
  /\ head = 0
  /\ tape = Canonical[module.data]
  /\ line = 0

NextFind == Run \/ Stop

SpecFind == InitFind /\ [][NextFind]_vars

\* the state tm_find goes to on a register-marker (r_yes of line 184): the
\* next state of the first group's line for REGISTER
q_found == Table.lines[REGISTER + 1][3]

\* the register blocks whose register-marker lies left of cell c
blocks_before(c) == {n \in 0 .. (num_regs - 1) : base(n) + 1 < c}

\* the scratch cell immediately left of the value word of block n
value_scratch(n) == base(n) + 4 + 2 * word_size

\* C16: on the canonical tape, from the start sentinel, the code of
\* tm_find_register(q, reg, r) changes no cell; it stops at the
\* register-markers in tape order and has left behind only blocks whose
\* stored index differs from reg (after a mismatch the search goes on to
\* the next register-marker); for reg in 0 .. 5 it stops in r, with the head
\* on the scratch cell immediately left of the value word of the block
\* whose stored index is reg; it is in the reject state only with the head
\* on the end sentinel and no block of index reg on the tape.
C16_FindRegister ==
  /\ tape = Canonical[module.data]
  /\ state \in {Table.marks[1].entry, q_found} =>
       \A n \in blocks_before(head) : index_of(tape, n) # module.reg
  /\ state = q_found =>
       \E n \in 0 .. (num_regs - 1) :
         head = base(n) + 1 /\ cell(tape, head) = REGISTER
  /\ state = Table.q_reject =>
       /\ cell(tape, head) = END
       /\ module.reg >= num_regs
  /\ state = Table.final =>
       /\ module.reg < num_regs
       /\ index_of(tape, module.reg) = module.reg
       /\ head = value_scratch(module.reg)
       /\ cell(tape, head - 1) = VALUE
  /\ phase = "halt" => state \in {Table.final, Table.q_reject}
  /\ (phase = "halt" /\ module.reg < num_regs) => state = Table.final

\* C16 witness: the last register has been found behind five blocks whose
\* index differs, with a memory block after it
C16_Witness ==
  /\ phase = "halt"
  /\ module.unit = "find"
  /\ module.reg = num_regs - 1
  /\ Len(module.data) > 0
  /\ state = Table.final
  /\ head = value_scratch(num_regs - 1)

(***************************************************************************)
(* The prologue on its own, from state 0 on a blank tape.                  *)
(***************************************************************************)
InitPrologue ==
  /\ \E data \in LayoutSegs : module = [unit |-> "prologue", data |-> data]
  /\ phase = "tm"
  /\ state = 0
  /\ head = 0
  /\ tape = blank_tape
  /\ line = 0

NextPrologue == Run \/ Stop

SpecPrologue == InitPrologue /\ [][NextPrologue]_vars

\* C17: the prologue, run from state 0 on a blank tape, never enters the
\* reject state and stops only in the state target_tm goes on from with the
\* first instruction, with the head on cell 0; the tape then reads: start
\* sentinel; for i = 0 .. 5 a block blank, register-marker, spread index i,
\* blank, value-marker, spread value 0; for each data entry k, in order, a
\* block blank, address-marker, spread k, blank, value-marker, spread data
\* value; blank, end sentinel; and nothing else.
C17_PrologueLayout ==
  /\ state # Table.q_reject
  /\ phase = "halt" =>
       /\ state = Table.final
       /\ head = 0
       /\ cell(tape, head) = START
       /\ tape = blank_tape
                  \o canonical([r \in 1 .. num_regs |-> 0], module.data)

\* C17 witness: the prologue has laid out a data segment of two bytes, the
\* second one in the block of address 1
C17_Witness ==
  /\ phase = "halt"
  /\ module.unit = "prologue"
  /\ Len(module.data) = 2
  /\ cell(tape, base(num_regs + 1) + 1) = ADDRESS
  /\ index_of(tape, num_regs + 1) = 1
  /\ value_of(tape, num_regs + 1) = module.data[2]

(***************************************************************************)
(* The code of one PUTC, run from the canonical tape, which may hold an    *)
(* output cell already, with the head on the start sentinel.               *)
(***************************************************************************)
InitPutc ==
  /\ \E m \in PutcInsts, outs \in Earlier :
       module = [unit |-> "inst", text |-> m.text, data |-> m.data,
                 outs |-> outs]
  /\ phase = "tm"
  /\ state = Table.marks[1].entry
  /\ head = 0
  /\ tape = blank_tape \o canonical_out(RegValues, module.data, module.outs)
  /\ line = 0

NextPutc == Run \/ Stop

SpecPutc == InitPutc /\ [][NextPutc]_vars

\* the cell that holds the end sentinel when the PUTC starts
old_end == Len(canonical_out(RegValues, module.data, module.outs)) - 1

\* the byte the PUTC is to output
putc_byte == ir_value(RegValues, the_inst.src)

\* C18: the code of PUTC s (s a register or an immediate), run from the
\* canonical tape with the head on the start sentinel, never enters the
\* reject state and stops only in the instruction's final state, with the
\* head on the start sentinel; then the cell of the old end sentinel holds
\* the output-marker, followed by the spread word of s's value (of the
\* immediate mod 256), a blank and the new end sentinel, and every register
\* block, memory block and earlier output cell is as it was.
C18_PutcEffect ==
  /\ state # Table.q_reject
  /\ phase = "halt" =>
       /\ state = Table.final
       /\ head = 0
       /\ cell(tape, head) = START
       /\ cell(tape, old_end) = OUTPUT
       /\ word_at(tape, old_end + 2, word_size, 2) = putc_byte
       /\ cell(tape, old_end + 2 * word_size + 1) = BLANK
       /\ cell(tape, old_end + 2 * word_size + 2) = END
       /\ tape = blank_tape
                  \o canonical_out(RegValues, module.data,
                                   Append(module.outs, putc_byte))

\* C18 witness: the PUTC of the last register, with no memory block behind
\* it and an earlier output cell on the tape, has ended
C18_Witness ==
  /\ phase = "halt"
  /\ state = Table.final
  /\ the_inst.op = "PUTC"
  /\ the_inst.src = Reg(num_regs - 1)
  /\ module.data = <<>>
  /\ module.outs = <<90>>
  /\ word_at(tape, old_end + 2, word_size, 2) = RegValues[num_regs]

(***************************************************************************)
(* Where EXIT leaves the output.                                           *)
(***************************************************************************)
\* the registers of a straight-line IR program after its instructions i,
\* i + 1, ..., when they hold regs before
RECURSIVE ir_registers(_, _, _)
ir_registers(text, i, regs) ==
  IF i > Len(text) \/ text[i].op = "EXIT"
    THEN regs
    ELSE ir_registers(text, i + 1,
           IF text[i].op = "MOV"
             THEN [regs EXCEPT ![text[i].dst.v + 1] =
                                 ir_value(regs, text[i].src)]
             ELSE regs)

\* the tape a straight-line program has built when its EXIT begins
tape_at_exit(m) ==
  canonical_out(ir_registers(m.text, 1, [r \in 1 .. num_regs |-> 0]),
                m.data, expected_output(m))

\* the cell that holds the end sentinel when EXIT begins
end_at_exit(m) == Len(tape_at_exit(m)) - 1

\* the machine is in the state the code of the program's last instruction,
\* its EXIT, starts in
exit_begins ==
  /\ phase = "tm"
  /\ state = Table.marks[Len(module.text)].entry

\* every cell from c on is blank
blank_from(tp, c) ==
  \A i \in c .. (Len(tp) - MaxLeft - 1) : cell(tp, i) = BLANK

\* C19 as stated: when EXIT has finished, the run of the k output words
\* starts right after the cell that held the end sentinel when EXIT began,
\* and every cell to the right of the run is blank.
C19_OutputAfterEnd ==
  (module \in PutcPrograms /\ phase = "halt") =>
    LET e == end_at_exit(module)
        n == word_size * Len(expected_output(module))
    IN  /\ bits_from(tape, e + 1) = n
        /\ blank_from(tape, e + 1 + n)

\* C19 amended: when EXIT begins, the head is on the start sentinel in cell
\* 0 and the end sentinel is in cell e; when EXIT has finished, the run of
\* the k output words starts in cell 0, the cell that held the start
\* sentinel, and every cell to the right of the run, cell e included, is
\* blank.
C19_OutputAtStart ==
  /\ (module \in PutcPrograms /\ exit_begins) =>
       /\ head = 0
       /\ tape = blank_tape \o tape_at_exit(module)
       /\ cell(tape, end_at_exit(module)) = END
  /\ (module \in PutcPrograms /\ phase = "halt") =>
       LET n == word_size * Len(expected_output(module))
       IN  /\ state = -1
           /\ bits_from(tape, 0) = n
           /\ blank_from(tape, n)
           /\ cell(tape, end_at_exit(module)) = BLANK

\* C19 witness: EXIT has finished on a tape that held two output cells, and
\* the 16 bits lie in cells 0 .. 15
C19_Witness ==
  /\ module \in PutcPrograms
  /\ phase = "halt"
  /\ Len(expected_output(module)) = 2
  /\ bits_from(tape, 0) = 2 * word_size
  /\ cell(tape, end_at_exit(module)) = BLANK

(***************************************************************************)
(* The tape between two instructions.                                      *)
(***************************************************************************)
\* the cells of the tape that hold symbol a
cells_of(tp, a) ==
  {c \in (-MaxLeft) .. (Len(tp) - MaxLeft - 1) : cell(tp, c) = a}

\* the instruction the line applied last was emitted for (0: none)
running ==
  IF line = 0 \/ is_stitch(Table, line) THEN 0 ELSE owner(Table, line)

\* the state instruction i leaves the machine in
left_by(T, i) ==
  IF i < Len(T.marks) THEN T.marks[i + 1].from ELSE T.final

\* the code of a MOV, ADD, SUB or PUTC has just completed
completed ==
  /\ phase = "tm"
  /\ running > 0
  /\ module.text[running].op \in {"MOV", "ADD", "SUB", "PUTC"}
  /\ state = left_by(Table, running)

\* the layout ^_x_0_0 ... _0_$: one start sentinel, in cell 0, one end
\* sentinel, no SRC or DST marker, and a blank in every scratch cell (the
\* odd cells up to the end sentinel)
canonical_form(tp) ==
  /\ cells_of(tp, START) = {0}
  /\ Cardinality(cells_of(tp, END)) = 1
  /\ cells_of(tp, SRC) = {}
  /\ cells_of(tp, DST) = {}
  /\ \A e \in cells_of(tp, END) :
       \A c \in 1 .. e : c % 2 = 1 => cell(tp, c) = BLANK

\* C20: whenever the code of a MOV, ADD, SUB or PUTC has completed, the
\* head is on cell 0 and the tape is in canonical form (one start sentinel,
\* in cell 0, one end sentinel, no SRC or DST marker, every scratch cell
\* blank); a transition emitted for a JMP writes back the symbol it read
\* and does not move the head, and none is emitted for a DUMP.
C20_CanonicalForm ==
  /\ completed => (head = 0 /\ canonical_form(tape))
  /\ (running > 0 /\ module.text[running].op = "JMP") =>
       /\ Table.lines[line][4] = Table.lines[line][2]
       /\ Table.lines[line][5] = 0
  /\ running > 0 => module.text[running].op # "DUMP"

\* the same for the programs that never jump back to pc 0
CanonicalFormNoRestart ==
  module # Restart => C20_CanonicalForm
====
